---------------------------- MODULE Spec2Model ----------------------------
(***************************************************************************)
(* State-machine model of celestia-node's core.BlockFetcher               *)
(* (src/core/fetcher.go) and of the das sampling worker                    *)
(* (src/das/worker.go).                                                    *)
(*                                                                         *)
(* The specifications share the module's variables:                        *)
(*                                                                         *)
(*   Spec / FairSpec  the new-block subscription: SubscribeNewBlockEvent,  *)
(*                    its receive-loop goroutine, the consumer of the      *)
(*                    output channel and concurrent Stop calls.  The       *)
(*                    caller follows the documented discipline: it         *)
(*                    subscribes only while no receive loop is alive and   *)
(*                    no Stop call is in progress.                         *)
(*   OpenSpec         the same with any caller: SubscribeNewBlockEvent     *)
(*                    and Stop in any order and at any time.               *)
(*   FetchSpec        the query methods: GetBlockInfo, GetBlock,           *)
(*                    GetBlockByHash, GetSignedBlock, Commit and           *)
(*                    ValidatorSet, against a Core node that keeps         *)
(*                    producing blocks and answers each remote call with   *)
(*                    any response the wire protocol allows.               *)
(*   WorkerSpec /     one run of a sampling worker over a job, with any    *)
(*   WorkerFairSpec   outcome of each header fetch and each sampling.      *)
(*                                                                         *)
(* Channels and cancel functions are identified by the number of the       *)
(* SubscribeNewBlockEvent call that made them; 0 is Go's nil.              *)
(***************************************************************************)
EXTENDS Integers, Sequences, FiniteSets, TLC

\* ------------------------------------------------------------------ bounds
MaxSubs == 2        \* SubscribeNewBlockEvent calls on one fetcher
MaxNotif == 2       \* heights the new-heights stream of one subscription emits

Subs == 1..MaxSubs
\* The goroutines that call Stop; each may call it again after it returned.
Stops == {"c1", "c2"}

VARIABLES
    \* ---- BlockFetcher fields
    f_cancel,       \* f.cancel: 0 (nil) or k, the cancel func of subscription k's ctx
    f_doneCh,       \* f.doneCh: 0 (nil) or k, the channel made by the k-th call
    \* ---- subscriptions (one entry per SubscribeNewBlockEvent call)
    nsub,           \* SubscribeNewBlockEvent calls made so far
    ctxDone,        \* [Subs -> BOOLEAN]: the subscription's ctx is cancelled
    opens,          \* [Subs -> Nat]: SubscribeNewHeights invocations of the call
    loopPc,         \* [Subs -> position of the receive-loop goroutine]
    deferStack,     \* [Subs -> Seq]: deferred closes still to run, next one first
    deferDone,      \* [Subs -> 0..MaxSubs]: the channel `defer close(f.doneCh)` captured
    curHeight,      \* [Subs -> Nat]: resp.Height of the iteration in progress
    recvLog,        \* [Subs -> Seq]: outcome of every subscription.Recv()
    fetchLog,       \* [Subs -> Seq]: <<height, outcome>> of every GetSignedBlock
    delivered,      \* [Subs -> Seq]: heights of the events pushed on signedBlockCh
    outClosers,     \* [Subs -> Seq]: goroutines that executed close(signedBlockCh k)
    doneClosers,    \* [Subs -> Seq]: goroutines that executed close(doneCh k)
    exitPath,       \* [Subs -> the return statement the loop left through]
    cancelMark,     \* [Subs -> Int]: events delivered when cancel was first called, -1 before
    \* ---- Stop calls (one entry per calling goroutine)
    stopPc,         \* [Stops -> position of the Stop call]
    stopCancel,     \* [Stops -> 0..MaxSubs]: the f.cancel it invoked
    stopDone,       \* [Stops -> 0..MaxSubs]: the f.doneCh its select waits on
    stopExpires,    \* [Stops -> BOOLEAN]: the ctx passed to Stop has a deadline
    stopMark,       \* [Stops -> Int]: events delivered on the cancelled subscription when it returned
    crashed,        \* the process died of a panic
    \* ---- query methods (FetchSpec)
    latest,         \* the latest height of the Core node
    call,           \* the query call in progress or just returned
    rpcs,           \* the remote calls it has issued: <<operation, height>>
    \* ---- das sampling worker (WorkerSpec)
    wstate,         \* w.state: the job (From, To), Curr, Err and failed
    curr,           \* the loop variable of run
    wpc,            \* position of run
    wctx,           \* the ctx passed to run is cancelled
    attempts,       \* the heights run has handled, each with the error it ended with
    results         \* the results received from resultCh

subVars == <<f_cancel, f_doneCh, nsub, ctxDone, opens, loopPc, deferStack,
             deferDone, curHeight, recvLog, fetchLog, delivered, outClosers,
             doneClosers, exitPath, cancelMark, stopPc, stopCancel, stopDone,
             stopExpires, stopMark, crashed>>

fetchVars == <<latest, call, rpcs>>

workerVars == <<wstate, curr, wpc, wctx, attempts, results>>

vars == <<subVars, fetchVars, workerVars>>

notSubVars == <<fetchVars, workerVars>>
notFetchVars == <<subVars, workerVars>>
notWorkerVars == <<subVars, fetchVars>>

\* A Go nil pointer or nil message, where the value is otherwise a height.
Nil == -1

\* No query call has been made.
NoCall ==
    /\ latest = 1
    /\ call = [op |-> "none", pc |-> "idle", arg |-> Nil, hash |-> "set",
               ptr |-> Nil, then |-> "open", height |-> Nil, commit |-> Nil,
               valset |-> Nil, info |-> Nil, parts |-> <<>>, streamErr |-> FALSE,
               reply |-> "none",
               res |-> [kind |-> "none", err |-> "none",
                        block |-> [nil |-> TRUE, data |-> <<>>],
                        commit |-> Nil, valset |-> Nil]]
    /\ rpcs = <<>>

\* NewBlockFetcher: only the client is set; cancel and doneCh are nil.
NewBlockFetcher ==
    /\ f_cancel = 0
    /\ f_doneCh = 0

\* No sampling worker has been made: the zero value of the worker struct.
NoWorker ==
    /\ wstate = [From |-> 0, To |-> 0, Curr |-> 0, Err |-> <<>>, failed |-> <<>>]
    /\ curr = 0
    /\ wpc = "idle"
    /\ wctx = FALSE
    /\ attempts = <<>>
    /\ results = <<>>

InitSub ==
    /\ NewBlockFetcher
    /\ nsub = 0
    /\ ctxDone = [k \in Subs |-> FALSE]
    /\ opens = [k \in Subs |-> 0]
    /\ loopPc = [k \in Subs |-> "none"]
    /\ deferStack = [k \in Subs |-> <<>>]
    /\ deferDone = [k \in Subs |-> 0]
    /\ curHeight = [k \in Subs |-> 0]
    /\ recvLog = [k \in Subs |-> <<>>]
    /\ fetchLog = [k \in Subs |-> <<>>]
    /\ delivered = [k \in Subs |-> <<>>]
    /\ outClosers = [k \in Subs |-> <<>>]
    /\ doneClosers = [k \in Subs |-> <<>>]
    /\ exitPath = [k \in Subs |-> "none"]
    /\ cancelMark = [k \in Subs |-> -1]
    /\ stopPc = [s \in Stops |-> "idle"]
    /\ stopCancel = [s \in Stops |-> 0]
    /\ stopDone = [s \in Stops |-> 0]
    /\ stopExpires = [s \in Stops |-> FALSE]
    /\ stopMark = [s \in Stops |-> -1]
    /\ crashed = FALSE


\* ------------------------------------------------- SubscribeNewBlockEvent

\* The process is alive: a panic ends every goroutine.
Alive == ~crashed

\* No receive loop is alive (the Idle state of the subscription life cycle).
Idle == \A k \in Subs : loopPc[k] \in {"none", "exited"}

\* The logs (opens, curHeight, recvLog, fetchLog, delivered, exitPath,
\* cancelMark) observe a subscription; they are not state of the program.  They
\* are kept until the next SubscribeNewBlockEvent call and dropped then for the
\* subscriptions whose goroutine is gone: Observed(k) says they are still kept.
Forget(log, empty) ==
    [k \in Subs |-> IF loopPc[k] \in {"none", "exited"} THEN empty ELSE log[k]]

Observed(k) == k <= nsub /\ (k = nsub \/ loopPc[k] \notin {"none", "exited"})

\* Lines 195-202: what a call leaves in f.cancel and f.doneCh.  The fields are
\* assigned before the stream is opened, so the new values stay also when
\* SubscribeNewHeights fails.
StoredOnlyOnSuccess(ok, old, new) == IF ok THEN new ELSE old
StoredOnCall(ok, old, new) == new

\* SubscribeNewBlockEvent, lines 194-203 and 239: the fields are overwritten
\* before the stream is opened; when SubscribeNewHeights fails (~ok) the call
\* returns the error and no goroutine is started.
SubscribeNewBlockEvent(ok) ==
    /\ Alive
    /\ nsub < MaxSubs
    /\ nsub' = nsub + 1
    /\ f_cancel' = StoredOnCall(ok, f_cancel, nsub + 1)
    /\ f_doneCh' = StoredOnCall(ok, f_doneCh, nsub + 1)
    /\ opens' = [Forget(opens, 0) EXCEPT ![nsub + 1] = 1]
    /\ loopPc' = [loopPc EXCEPT ![nsub + 1] = IF ok THEN "start" ELSE "none"]
    /\ curHeight' = Forget(curHeight, 0)
    /\ recvLog' = Forget(recvLog, <<>>)
    /\ fetchLog' = Forget(fetchLog, <<>>)
    /\ delivered' = Forget(delivered, <<>>)
    /\ exitPath' = Forget(exitPath, "none")
    /\ cancelMark' = Forget(cancelMark, -1)
    /\ UNCHANGED <<ctxDone, deferStack, deferDone, outClosers, doneClosers,
                   stopPc, stopCancel, stopDone, stopExpires, stopMark, crashed>>

\* No Stop call is in progress.
NoStopInProgress == \A s \in Stops : stopPc[s] = "idle"

\* The caller of Spec makes its life-cycle calls in turn: it subscribes only
\* from Idle and not while a Stop call is in progress.
Subscribe ==
    \E ok \in BOOLEAN : Idle /\ NoStopInProgress /\ SubscribeNewBlockEvent(ok)

\* ------------------------------------------------------ the receive loop

\* The deferred calls in the order they run when the goroutine returns
\* (last deferred, first run): close(signedBlockCh), then close(f.doneCh).
DeferOrderDoneFirst == <<"doneCh", "signedBlockCh">>
DeferOrderNoDone == <<"signedBlockCh">>
DeferOrder == <<"signedBlockCh", "doneCh">>

\* A return statement of the loop: the deferred calls start to run.
Exit(k, path) ==
    /\ loopPc' = [loopPc EXCEPT ![k] = "unwind"]
    /\ exitPath' = [exitPath EXCEPT ![k] = path]

\* Lines 205-207: the goroutine starts and executes its two defer statements;
\* the argument f.doneCh is evaluated now, by the goroutine.
LoopStart(k) ==
    /\ Alive
    /\ loopPc[k] = "start"
    /\ deferDone' = [deferDone EXCEPT ![k] = f_doneCh]
    /\ deferStack' = [deferStack EXCEPT ![k] = DeferOrder]
    /\ loopPc' = [loopPc EXCEPT ![k] = "top"]
    /\ UNCHANGED <<f_cancel, f_doneCh, nsub, ctxDone, opens, curHeight, recvLog,
                   fetchLog, delivered, outClosers, doneClosers, exitPath,
                   cancelMark, stopPc, stopCancel, stopDone, stopExpires,
                   stopMark, crashed>>

\* Lines 209-213: select { case <-ctx.Done(): return; default: Recv() }.
TopSelectNoCheck(k) ==
    /\ loopPc' = [loopPc EXCEPT ![k] = "recv"]
    /\ UNCHANGED exitPath
TopSelect(k) ==
    IF ctxDone[k]
    THEN Exit(k, "cancel_top")
    ELSE /\ loopPc' = [loopPc EXCEPT ![k] = "recv"]
         /\ UNCHANGED exitPath

LoopTop(k) ==
    /\ Alive
    /\ loopPc[k] = "top"
    /\ TopSelect(k)
    /\ UNCHANGED <<f_cancel, f_doneCh, nsub, ctxDone, opens, deferStack, deferDone,
                   curHeight, recvLog, fetchLog, delivered, outClosers,
                   doneClosers, cancelMark, stopPc, stopCancel, stopDone,
                   stopExpires, stopMark, crashed>>

\* The heights subscription.Recv() has returned so far on subscription k.
Received(k) == Cardinality({i \in 1..Len(recvLog[k]) : recvLog[k][i] = "ok"})

\* Lines 214-219: Recv failed; the error is logged and the loop returns.
RecvFailedResubscribe(k) ==
    /\ opens' = [opens EXCEPT ![k] = @ + 1]
    /\ loopPc' = [loopPc EXCEPT ![k] = "top"]
    /\ UNCHANGED exitPath
RecvFailed(k) ==
    /\ Exit(k, "recv_err")
    /\ UNCHANGED opens

\* Line 213: subscription.Recv() returns the next height of the stream.
LoopRecvHeight(k) ==
    /\ Alive
    /\ loopPc[k] = "recv"
    /\ Received(k) < MaxNotif
    /\ recvLog' = [recvLog EXCEPT ![k] = Append(@, "ok")]
    /\ curHeight' = [curHeight EXCEPT ![k] = Received(k) + 1]
    /\ loopPc' = [loopPc EXCEPT ![k] = "fetch"]
    /\ UNCHANGED <<f_cancel, f_doneCh, nsub, ctxDone, opens, deferStack, deferDone,
                   fetchLog, delivered, outClosers, doneClosers, exitPath,
                   cancelMark, stopPc, stopCancel, stopDone, stopExpires,
                   stopMark, crashed>>

\* Line 213: subscription.Recv() returns an error (the stream broke, or its
\* context was cancelled).
LoopRecvError(k) ==
    /\ Alive
    /\ loopPc[k] = "recv"
    /\ recvLog' = [recvLog EXCEPT ![k] = Append(@, "err")]
    /\ RecvFailed(k)
    /\ UNCHANGED <<f_cancel, f_doneCh, nsub, ctxDone, deferStack, deferDone,
                   curHeight, fetchLog, delivered, outClosers, doneClosers,
                   cancelMark, stopPc, stopCancel, stopDone, stopExpires,
                   stopMark, crashed>>

\* Lines 221-224: GetSignedBlock failed; the error is logged and the loop returns.
FetchFailedSkip(k) ==
    /\ loopPc' = [loopPc EXCEPT ![k] = "top"]
    /\ UNCHANGED exitPath
FetchFailed(k) == Exit(k, "fetch_err")

\* Line 220: the height the loop passes to GetSignedBlock: &resp.Height.  A
\* nil height would fetch the latest block, here the last the stream announces.
FetchHeightLatest(k) == MaxNotif
FetchHeight(k) == curHeight[k]

\* Line 220: f.GetSignedBlock(ctx, &resp.Height) returns a block, returns an
\* error, or panics (see GetSignedBlock).
LoopFetch(k, outcome) ==
    /\ Alive
    /\ loopPc[k] = "fetch"
    /\ fetchLog' = [fetchLog EXCEPT ![k] = Append(@, <<FetchHeight(k), outcome>>)]
    /\ CASE outcome = "ok" -> /\ loopPc' = [loopPc EXCEPT ![k] = "push"]
                              /\ UNCHANGED exitPath
         [] outcome = "err" -> FetchFailed(k)
         [] OTHER -> Exit(k, "panic")
    /\ UNCHANGED <<f_cancel, f_doneCh, nsub, ctxDone, opens, deferStack, deferDone,
                   curHeight, recvLog, delivered, outClosers, doneClosers,
                   cancelMark, stopPc, stopCancel, stopDone, stopExpires,
                   stopMark, crashed>>

\* Lines 225-231: the send case of the select; the channel is unbuffered, so
\* the send happens in the step in which the consumer receives.  The event is
\* built from signedBlock, the block GetSignedBlock just returned.
LoopPush(k) ==
    /\ Alive
    /\ loopPc[k] = "push"
    /\ delivered' = [delivered EXCEPT ![k] =
                        Append(@, fetchLog[k][Len(fetchLog[k])][1])]
    /\ loopPc' = [loopPc EXCEPT ![k] = "top"]
    /\ UNCHANGED <<f_cancel, f_doneCh, nsub, ctxDone, opens, deferStack, deferDone,
                   curHeight, recvLog, fetchLog, outClosers, doneClosers, exitPath,
                   cancelMark, stopPc, stopCancel, stopDone, stopExpires,
                   stopMark, crashed>>

\* Lines 232-233: the ctx.Done() case of the select.
PushSelectNoCancelCase(k) == FALSE
PushSelectCancelled(k) ==
    /\ ctxDone[k]
    /\ Exit(k, "cancel_push")

LoopPushCancelled(k) ==
    /\ Alive
    /\ loopPc[k] = "push"
    /\ PushSelectCancelled(k)
    /\ UNCHANGED <<f_cancel, f_doneCh, nsub, ctxDone, opens, deferStack, deferDone,
                   curHeight, recvLog, fetchLog, delivered, outClosers,
                   doneClosers, cancelMark, stopPc, stopCancel, stopDone,
                   stopExpires, stopMark, crashed>>

\* close(ch): closing a nil channel or a closed channel panics.
ClosePanics(closers, ch) == ch = 0 \/ closers[ch] # <<>>

\* Lines 206-207 at return: the next deferred close runs; after the last one
\* the goroutine is gone, and a panic that unwound it ends the process.
LoopUnwind(k) ==
    /\ Alive
    /\ loopPc[k] = "unwind"
    /\ LET last == Len(deferStack[k]) <= 1
           panics ==
               /\ deferStack[k] # <<>>
               /\ IF Head(deferStack[k]) = "doneCh"
                  THEN ClosePanics(doneClosers, deferDone[k])
                  ELSE ClosePanics(outClosers, k)
       IN  /\ loopPc' = [loopPc EXCEPT ![k] = IF last THEN "exited" ELSE "unwind"]
           /\ deferStack' = [deferStack EXCEPT ![k] =
                                IF @ = <<>> THEN <<>> ELSE Tail(@)]
           /\ outClosers' =
                  IF deferStack[k] # <<>> /\ Head(deferStack[k]) = "signedBlockCh"
                  THEN [outClosers EXCEPT ![k] = Append(@, k)]
                  ELSE outClosers
           /\ doneClosers' =
                  IF /\ deferStack[k] # <<>>
                     /\ Head(deferStack[k]) = "doneCh"
                     /\ deferDone[k] # 0
                  THEN [doneClosers EXCEPT ![deferDone[k]] = Append(@, k)]
                  ELSE doneClosers
           /\ crashed' = (panics \/ (last /\ exitPath[k] = "panic"))
    /\ UNCHANGED <<f_cancel, f_doneCh, nsub, ctxDone, opens, deferDone, curHeight,
                   recvLog, fetchLog, delivered, exitPath, cancelMark, stopPc,
                   stopCancel, stopDone, stopExpires, stopMark>>

\* ------------------------------------------------------------------ Stop

\* Line 40: f.cancel(); calling a nil func panics.
StopCall(s, expires) ==
    /\ Alive
    /\ stopPc[s] = "idle"
    /\ stopExpires' = [stopExpires EXCEPT ![s] = expires]
    /\ stopCancel' = [stopCancel EXCEPT ![s] = f_cancel]
    /\ IF f_cancel = 0
       THEN /\ stopPc' = [stopPc EXCEPT ![s] = "panic"]
            /\ crashed' = TRUE
            /\ UNCHANGED <<ctxDone, cancelMark>>
       ELSE /\ stopPc' = [stopPc EXCEPT ![s] = "called"]
            /\ ctxDone' = [ctxDone EXCEPT ![f_cancel] = TRUE]
            /\ cancelMark' = [cancelMark EXCEPT ![f_cancel] =
                                 IF @ = -1 THEN Len(delivered[f_cancel]) ELSE @]
            /\ UNCHANGED crashed
    /\ UNCHANGED <<f_cancel, f_doneCh, nsub, opens, loopPc, deferStack, deferDone,
                   curHeight, recvLog, fetchLog, delivered, outClosers,
                   doneClosers, exitPath, stopDone, stopMark>>

\* Lines 41-42: the select evaluates f.doneCh and starts to wait.
StopSelect(s) ==
    /\ Alive
    /\ stopPc[s] = "called"
    /\ stopDone' = [stopDone EXCEPT ![s] = f_doneCh]
    /\ stopPc' = [stopPc EXCEPT ![s] = "waiting"]
    /\ UNCHANGED <<f_cancel, f_doneCh, nsub, ctxDone, opens, loopPc, deferStack,
                   deferDone, curHeight, recvLog, fetchLog, delivered, outClosers,
                   doneClosers, exitPath, cancelMark, stopCancel, stopExpires,
                   stopMark, crashed>>

\* Line 42: case <-f.doneCh is ready once the channel is closed; a nil
\* channel is never ready.
DoneSignalledNever(ch) == FALSE
DoneSignalled(ch) == ch # 0 /\ doneClosers[ch] # <<>>

\* Lines 42-43: the completion signal is closed; Stop returns nil.
StopReturnNil(s) ==
    /\ Alive
    /\ stopPc[s] = "waiting"
    /\ DoneSignalled(stopDone[s])
    /\ stopPc' = [stopPc EXCEPT ![s] = "nil"]
    /\ stopMark' = [stopMark EXCEPT ![s] = Len(delivered[stopCancel[s]])]
    /\ UNCHANGED <<f_cancel, f_doneCh, nsub, ctxDone, opens, loopPc, deferStack,
                   deferDone, curHeight, recvLog, fetchLog, delivered, outClosers,
                   doneClosers, exitPath, cancelMark, stopCancel, stopDone,
                   stopExpires, crashed>>

\* Lines 44-45: ctx.Done() of the caller's context fires; Stop returns the
\* wrapped ctx.Err().
StopTimeout(s) ==
    /\ Alive
    /\ stopPc[s] = "waiting"
    /\ stopExpires[s]
    /\ stopPc' = [stopPc EXCEPT ![s] = "timeout"]
    /\ stopMark' = [stopMark EXCEPT ![s] = Len(delivered[stopCancel[s]])]
    /\ UNCHANGED <<f_cancel, f_doneCh, nsub, ctxDone, opens, loopPc, deferStack,
                   deferDone, curHeight, recvLog, fetchLog, delivered, outClosers,
                   doneClosers, exitPath, cancelMark, stopCancel, stopDone,
                   stopExpires, crashed>>

\* The caller has Stop's result (lines 43 and 45) and is free to call again.
StopReturned(s) ==
    /\ Alive
    /\ stopPc[s] \in {"nil", "timeout"}
    /\ stopPc' = [stopPc EXCEPT ![s] = "idle"]
    /\ stopCancel' = [stopCancel EXCEPT ![s] = 0]
    /\ stopDone' = [stopDone EXCEPT ![s] = 0]
    /\ stopExpires' = [stopExpires EXCEPT ![s] = FALSE]
    /\ stopMark' = [stopMark EXCEPT ![s] = -1]
    /\ UNCHANGED <<f_cancel, f_doneCh, nsub, ctxDone, opens, loopPc, deferStack,
                   deferDone, curHeight, recvLog, fetchLog, delivered, outClosers,
                   doneClosers, exitPath, cancelMark, crashed>>

\* ------------------------------------------------------- specifications

\* The outcomes of GetSignedBlock the loop distinguishes.
FetchOutcomes == {"ok", "err", "panic"}

Next ==
    \/ Subscribe /\ UNCHANGED notSubVars
    \/ \E k \in Subs : LoopStart(k) /\ UNCHANGED notSubVars
    \/ \E k \in Subs : LoopTop(k) /\ UNCHANGED notSubVars
    \/ \E k \in Subs : LoopRecvHeight(k) /\ UNCHANGED notSubVars
    \/ \E k \in Subs : LoopRecvError(k) /\ UNCHANGED notSubVars
    \/ \E k \in Subs, o \in FetchOutcomes : LoopFetch(k, o) /\ UNCHANGED notSubVars
    \/ \E k \in Subs : LoopPush(k) /\ UNCHANGED notSubVars
    \/ \E k \in Subs : LoopPushCancelled(k) /\ UNCHANGED notSubVars
    \/ \E k \in Subs : LoopUnwind(k) /\ UNCHANGED notSubVars
    \/ \E s \in Stops, e \in BOOLEAN : StopCall(s, e) /\ UNCHANGED notSubVars
    \/ \E s \in Stops : StopSelect(s) /\ UNCHANGED notSubVars
    \/ \E s \in Stops : StopReturnNil(s) /\ UNCHANGED notSubVars
    \/ \E s \in Stops : StopTimeout(s) /\ UNCHANGED notSubVars
    \/ \E s \in Stops : StopReturned(s) /\ UNCHANGED notSubVars

\* A fresh fetcher on which no method has been called.
Init == InitSub /\ NoCall /\ NoWorker

Spec == Init /\ [][Next]_vars

\* What the Go scheduler and the cancellation contract of the client
\* guarantee: a runnable goroutine runs, and a Recv or a fetch whose context
\* is cancelled returns.  Nothing makes the consumer receive, the stream emit
\* or an uncancelled remote call return.
LoopProgress(k) ==
    \/ LoopStart(k)
    \/ LoopTop(k)
    \/ (ctxDone[k] /\ (LoopRecvHeight(k) \/ LoopRecvError(k)))
    \/ (ctxDone[k] /\ \E o \in FetchOutcomes : LoopFetch(k, o))
    \/ LoopPushCancelled(k)
    \/ LoopUnwind(k)

StopProgress(s) == StopSelect(s) \/ StopReturnNil(s)

Fairness ==
    /\ \A k \in Subs : WF_vars(LoopProgress(k) /\ UNCHANGED notSubVars)
    /\ \A s \in Stops : WF_vars(StopProgress(s) /\ UNCHANGED notSubVars)

FairSpec == Spec /\ Fairness


\* Any caller: SubscribeNewBlockEvent and Stop are called in any order and at
\* any time, also while a receive loop is alive or a Stop is in progress.
OpenNext ==
    \/ \E ok \in BOOLEAN : SubscribeNewBlockEvent(ok) /\ UNCHANGED notSubVars
    \/ \E k \in Subs : LoopStart(k) /\ UNCHANGED notSubVars
    \/ \E k \in Subs : LoopTop(k) /\ UNCHANGED notSubVars
    \/ \E k \in Subs : LoopRecvHeight(k) /\ UNCHANGED notSubVars
    \/ \E k \in Subs : LoopRecvError(k) /\ UNCHANGED notSubVars
    \/ \E k \in Subs, o \in FetchOutcomes : LoopFetch(k, o) /\ UNCHANGED notSubVars
    \/ \E k \in Subs : LoopPush(k) /\ UNCHANGED notSubVars
    \/ \E k \in Subs : LoopPushCancelled(k) /\ UNCHANGED notSubVars
    \/ \E k \in Subs : LoopUnwind(k) /\ UNCHANGED notSubVars
    \/ \E s \in Stops, e \in BOOLEAN : StopCall(s, e) /\ UNCHANGED notSubVars
    \/ \E s \in Stops : StopSelect(s) /\ UNCHANGED notSubVars
    \/ \E s \in Stops : StopReturnNil(s) /\ UNCHANGED notSubVars
    \/ \E s \in Stops : StopTimeout(s) /\ UNCHANGED notSubVars
    \/ \E s \in Stops : StopReturned(s) /\ UNCHANGED notSubVars

OpenSpec == Init /\ [][OpenNext]_vars


\* ---------------------------------------------------------- query methods

MaxHeight == 2      \* heights the Core node reaches
MaxParts == 2       \* parts of one streamed block

\* The height arguments of the query methods: nil, or any height.
HeightArgs == {Nil} \cup 0..MaxHeight

\* A libhead.Hash argument ([]byte): the nil slice, an empty non-nil slice, or
\* the hash of a block.
HashArgs == {"nil", "empty", "set"}

\* The payload of a part: a sequence of bytes.
PartPayloads == {<<0>>, <<1>>, <<2>>}

\* What stream.Recv() can return: an error, or a response with a part.  The
\* first response of a by-height stream also carries BlockMeta, Commit and
\* ValidatorSet; carries = FALSE stands for one of them missing or malformed.
StreamResponses ==
    [err : {TRUE}, index : {0}, bytes : {<<>>}, last : {FALSE}, carries : {TRUE}]
    \cup [err : {FALSE}, index : 0..(MaxParts - 1), bytes : PartPayloads,
          last : BOOLEAN, carries : BOOLEAN]

NilBlock == [nil |-> TRUE, data |-> <<>>]

NoResult == [kind |-> "none", err |-> "none", block |-> NilBlock,
             commit |-> Nil, valset |-> Nil]

\* The call returns the error e and nothing else.
Fail(c, e) ==
    [c EXCEPT !.pc = "done",
              !.res = [NoResult EXCEPT !.kind = "err", !.err = e]]

\* ---- partsToBlock

\* types.NewPartSetFromHeader(types.PartSetHeader{Total: total}).
NewPartSetFromHeader(total) ==
    [total |-> total, parts |-> [i \in {} |-> <<>>]]

\* partSet.AddPartWithoutProof (celestia-core), as the call site of lines
\* 311-317 tells its outcomes apart: an index outside the set is an error
\* (ErrPartSetUnexpectedIndex); a part whose index is already present is
\* refused without an error, (false, nil); otherwise the part is stored.
AddPartWithoutProof(ps, part) ==
    IF part.index >= ps.total
    THEN [ok |-> FALSE, err |-> "index", ps |-> ps]
    ELSE IF part.index \in DOMAIN ps.parts
    THEN [ok |-> FALSE, err |-> "none", ps |-> ps]
    ELSE [ok |-> TRUE, err |-> "none",
          ps |-> [ps EXCEPT !.parts =
                     [i \in (DOMAIN ps.parts) \cup {part.index} |->
                         IF i = part.index THEN part.bytes ELSE ps.parts[i]]]]

\* Lines 310-318: the loop over the parts, from part i on.  It returns early,
\* with the accumulator's err, when err is non-nil and when ok is false.
RECURSIVE AddParts(_, _, _)
AddParts(ps, parts, i) ==
    IF i > Len(parts)
    THEN [returned |-> FALSE, err |-> "none", ps |-> ps]
    ELSE LET r == AddPartWithoutProof(ps, parts[i])
         IN  IF r.err # "none"
             THEN [returned |-> TRUE, err |-> r.err, ps |-> ps]
             ELSE IF ~r.ok
             THEN [returned |-> TRUE, err |-> r.err, ps |-> ps]
             ELSE AddParts(r.ps, parts, i + 1)

\* io.ReadAll(partSet.GetReader()) of a complete set: the payloads in the
\* order of their indices, from index i on.
RECURSIVE ReadAll(_, _)
ReadAll(ps, i) ==
    IF i >= ps.total THEN <<>> ELSE ps.parts[i] \o ReadAll(ps, i + 1)

\* proto.Unmarshal and types.BlockFromProto: the bytes are a block exactly
\* when they are framed, here a first byte that counts the bytes after it.
Unmarshal(bz) ==
    IF Len(bz) >= 1 /\ bz[1] = Len(bz) - 1
    THEN [err |-> "none", block |-> [nil |-> FALSE, data |-> Tail(bz)]]
    ELSE [err |-> "decode", block |-> NilBlock]

\* partsToBlock, lines 306-333.
partsToBlock(parts) ==
    LET a == AddParts(NewPartSetFromHeader(Len(parts)), parts, 1)
    IN  IF a.returned
        THEN [block |-> NilBlock, err |-> a.err]
        ELSE Unmarshal(ReadAll(a.ps, 0))

\* ---- the calls

StreamOps == {"GetBlock", "GetBlockByHash", "GetSignedBlock"}

NewCall(op, ptr, hash, then) ==
    [op |-> op, pc |-> "resolve", arg |-> ptr, hash |-> hash, ptr |-> ptr,
     then |-> then, height |-> Nil, commit |-> Nil, valset |-> Nil,
     info |-> Nil, parts |-> <<>>, streamErr |-> FALSE, reply |-> "none",
     res |-> NoResult]

CanStart == call.pc \in {"idle", "done"}

\* GetBlockInfo, GetBlock, GetSignedBlock, Commit and ValidatorSet all begin
\* with resolveHeight(ctx, height) (lines 51, 72, 121, 146, 171).
StartHeightCall(op, ptr) ==
    /\ CanStart
    /\ call' = NewCall(op, ptr, "set",
                       CASE op \in {"GetBlockInfo", "Commit"} -> "commit"
                         [] op = "ValidatorSet" -> "valset"
                         [] OTHER -> "open")
    /\ rpcs' = <<>>
    /\ UNCHANGED latest

\* Line 89: the check GetBlockByHash makes of its argument.
HashRejected(hash) == hash = "nil"

\* GetBlockByHash, lines 88-92.
StartGetBlockByHash(hash) ==
    /\ CanStart
    /\ call' = IF HashRejected(hash)
               THEN Fail(NewCall("GetBlockByHash", Nil, hash, "open"), "invalid")
               ELSE [NewCall("GetBlockByHash", Nil, hash, "open") EXCEPT !.pc = "open"]
    /\ rpcs' = <<>>
    /\ UNCHANGED latest

ResolveGivenAsksStatus ==
    /\ call.pc = "resolve"
    /\ call.ptr # Nil
    /\ rpcs' = Append(rpcs, <<"Status", Nil>>)
    /\ call' = [call EXCEPT !.pc = call.then, !.height = latest]
    /\ UNCHANGED latest

\* resolveHeight, lines 107-108: a non-nil height is returned as it is.
ResolveGiven ==
    /\ call.pc = "resolve"
    /\ call.ptr # Nil
    /\ call' = [call EXCEPT !.pc = call.then, !.height = call.ptr]
    /\ UNCHANGED <<latest, rpcs>>

\* resolveHeight, lines 110-114: a nil height costs one Status query.
ResolveStatus(ok) ==
    /\ call.pc = "resolve"
    /\ call.ptr = Nil
    /\ rpcs' = Append(rpcs, <<"Status", Nil>>)
    /\ call' = IF ok
               THEN [call EXCEPT !.pc = call.then, !.height = latest]
               ELSE Fail(call, "transport")
    /\ UNCHANGED latest

\* The Core node has a block, a commit and a validator set at height h.
Has(h) == 1 <= h /\ h <= latest

\* Lines 158-160 and 183-185: Core answered without the commit (validator
\* set); the call returns a not-found error.
AbsentIsNilValue(c) ==
    [c EXCEPT !.pc = "done", !.res = [NoResult EXCEPT !.kind = "ok"]]
Absent(c) == Fail(c, "notfound")

\* Line 61: the height GetBlockInfo passes to ValidatorSet: &commit.Height.
ValSetHeightRequested(c, commitHeight) == c.arg
ValSetHeight(c, commitHeight) == commitHeight

\* Commit, lines 150-164, and what GetBlockInfo does with it, lines 52-61.
\* resp is "err" (the call failed), "absent" (res.Commit == nil), "malformed"
\* (CommitFromProto fails) or "found";
\* hc is the height the returned commit reports (res.Commit.Height).
CommitQuery(resp, hc) ==
    /\ call.pc = "commit"
    /\ IF resp = "found" THEN Has(hc) ELSE hc = 1
    /\ rpcs' = Append(rpcs, <<"Commit", call.height>>)
    /\ call' =
         CASE resp = "err" -> [Fail(call, "transport") EXCEPT !.reply = resp]
           [] resp = "absent" -> [Absent(call) EXCEPT !.reply = resp]
           [] resp = "malformed" -> [Fail(call, "conversion") EXCEPT !.reply = resp]
           [] OTHER ->
               IF call.op = "Commit"
               THEN [call EXCEPT !.pc = "done", !.commit = hc, !.reply = resp,
                                 !.res = [NoResult EXCEPT !.kind = "ok",
                                                          !.commit = hc]]
               ELSE [call EXCEPT !.pc = "resolve", !.then = "valset",
                                 !.commit = hc, !.reply = resp,
                                 !.ptr = ValSetHeight(call, hc)]
    /\ UNCHANGED latest

\* ValidatorSet, lines 175-189, and GetBlockInfo's return, lines 62-66.
ValidatorSetQuery(resp) ==
    /\ call.pc = "valset"
    /\ resp = "found" => Has(call.height)
    /\ rpcs' = Append(rpcs, <<"ValidatorSet", call.height>>)
    /\ call' =
         CASE resp = "err" -> [Fail(call, "transport") EXCEPT !.reply = resp]
           [] resp = "absent" -> [Absent(call) EXCEPT !.reply = resp]
           [] resp = "malformed" -> [Fail(call, "conversion") EXCEPT !.reply = resp]
           [] OTHER ->
               [call EXCEPT !.pc = "done", !.valset = call.height,
                            !.reply = resp,
                            !.res = [NoResult EXCEPT !.kind = "ok",
                                                     !.commit = call.commit,
                                                     !.valset = call.height]]
    /\ UNCHANGED latest

\* Lines 77-80, 92-95, 126-129: the stream is opened.
OpenStream(ok) ==
    /\ call.pc = "open"
    /\ rpcs' = Append(rpcs, IF call.op = "GetBlockByHash"
                            THEN <<"BlockByHash", Nil>>
                            ELSE <<"BlockByHeight", call.height>>)
    /\ call' = IF ok THEN [call EXCEPT !.pc = "recv"] ELSE Fail(call, "transport")
    /\ UNCHANGED latest

\* Lines 258-260, 279-281, 297-299: Recv failed; the error is returned.
RecvErrorAssembles(c) == [c EXCEPT !.pc = "assemble", !.streamErr = TRUE]
RecvError(c) == [Fail(c, "transport") EXCEPT !.streamErr = TRUE]

\* receiveBlockByHeight, lines 257-284, and receiveBlockByHash, lines 295-302:
\* one Recv.  The first response of a by-height stream is converted
\* (BlockMetaFromProto, CommitFromProto, ValidatorSetFromProto) before its
\* part is kept.
RecvPart(resp) ==
    /\ call.pc = "recv"
    /\ ~resp.err /\ Len(call.parts) = MaxParts - 1 => resp.last
    /\ ~resp.err /\ ~(call.parts = <<>> /\ call.op # "GetBlockByHash") => resp.carries
    /\ call' =
         IF resp.err THEN RecvError(call)
         ELSE IF ~resp.carries THEN Fail(call, "conversion")
         ELSE [call EXCEPT
                  !.parts = Append(@, [index |-> resp.index, bytes |-> resp.bytes]),
                  !.info = IF call.parts = <<>> /\ call.op # "GetBlockByHash"
                           THEN call.height ELSE @,
                  !.pc = IF resp.last THEN "assemble" ELSE "recv"]
    /\ UNCHANGED <<latest, rpcs>>

\* Lines 130-139: the commit GetSignedBlock returns is the one that came with
\* the first response of the stream.
SignedBlockCommitAtLatest(c) == latest
SignedBlockCommit(c) == c.info

\* Lines 285-289 and 303, then the caller: GetBlock (lines 81-85) and
\* GetBlockByHash (lines 96-101) return the block; GetSignedBlock (lines
\* 130-139) reads block.Header and block.Data, which panics on a nil block.
Assemble ==
    /\ call.pc = "assemble"
    /\ LET r == partsToBlock(call.parts)
       IN  call' =
             IF r.err # "none" THEN Fail(call, r.err)
             ELSE IF call.op = "GetSignedBlock"
             THEN IF r.block.nil
                  THEN [call EXCEPT !.pc = "done",
                                    !.res = [NoResult EXCEPT !.kind = "panic"]]
                  ELSE [call EXCEPT !.pc = "done",
                                    !.res = [kind |-> "ok", err |-> "none",
                                             block |-> r.block,
                                             commit |-> SignedBlockCommit(call),
                                             valset |-> call.info]]
             ELSE [call EXCEPT !.pc = "done",
                               !.res = [NoResult EXCEPT !.kind = "ok",
                                                        !.block = r.block]]
    /\ UNCHANGED <<latest, rpcs>>

\* The chain grows while calls are in progress.
ProduceBlock ==
    /\ latest < MaxHeight
    /\ latest' = latest + 1
    /\ UNCHANGED <<call, rpcs>>

HeightOps == {"GetBlockInfo", "GetBlock", "GetSignedBlock", "Commit", "ValidatorSet"}
QueryResponses == {"err", "absent", "malformed", "found"}

FetchNext ==
    \/ \E op \in HeightOps, h \in HeightArgs : StartHeightCall(op, h) /\ UNCHANGED notFetchVars
    \/ \E hash \in HashArgs : StartGetBlockByHash(hash) /\ UNCHANGED notFetchVars
    \/ ResolveGiven /\ UNCHANGED notFetchVars
    \/ \E ok \in BOOLEAN : ResolveStatus(ok) /\ UNCHANGED notFetchVars
    \/ \E resp \in QueryResponses, hc \in 1..MaxHeight :
          CommitQuery(resp, hc) /\ UNCHANGED notFetchVars
    \/ \E resp \in QueryResponses : ValidatorSetQuery(resp) /\ UNCHANGED notFetchVars
    \/ \E ok \in BOOLEAN : OpenStream(ok) /\ UNCHANGED notFetchVars
    \/ \E resp \in StreamResponses : RecvPart(resp) /\ UNCHANGED notFetchVars
    \/ Assemble /\ UNCHANGED notFetchVars
    \/ ProduceBlock /\ UNCHANGED notFetchVars

FetchSpec == Init /\ [][FetchNext]_vars

\* ------------------------------------------------ subscription: claims

Range(seq) == {seq[i] : i \in 1..Len(seq)}

\* Both deferred closes of loop k have run, each once, by loop k itself.
ClosedOnce(k) == outClosers[k] = <<k>> /\ doneClosers[k] = <<k>>

\* C1: whenever a Stop call has returned nil, the subscription it cancelled and
\* the one whose completion signal it waited on have no receive loop left, the
\* loop it waited on has exited with its output channel already closed, and no
\* event has been pushed since Stop returned.
C1_StopNilAfterLoopExit ==
    \A s \in Stops : stopPc[s] = "nil" =>
        /\ loopPc[stopDone[s]] = "exited"
        /\ outClosers[stopDone[s]] = <<stopDone[s]>>
        /\ loopPc[stopCancel[s]] \in {"none", "exited"}
        /\ loopPc[stopCancel[s]] = "exited" =>
               outClosers[stopCancel[s]] = <<stopCancel[s]>>
        /\ Observed(stopCancel[s]) =>
               Len(delivered[stopCancel[s]]) = stopMark[s]

\* C1 witness: Stop returned nil for a subscription that was cancelled while
\* its push was in flight, after an event had been delivered.
C1_Witness ==
    \E s \in Stops :
        /\ stopPc[s] = "nil"
        /\ stopCancel[s] = stopDone[s]
        /\ exitPath[stopDone[s]] = "cancel_push"
        /\ delivered[stopDone[s]] # <<>>

\* C2: the completion signal and the output channel of every receive loop are
\* closed by that loop only, never before it returns, never twice, and both
\* exactly once when it has exited, whatever the exit path.
C2_ClosedExactlyOnce ==
    \A k \in Subs :
        /\ Len(outClosers[k]) <= 1
        /\ Len(doneClosers[k]) <= 1
        /\ Range(outClosers[k]) \subseteq {k}
        /\ Range(doneClosers[k]) \subseteq {k}
        /\ loopPc[k] = "exited" => ClosedOnce(k)
        /\ loopPc[k] \notin {"unwind", "exited"} =>
               outClosers[k] = <<>> /\ doneClosers[k] = <<>>

\* C2 witness: two loops in a row have exited, the second through a failed
\* fetch, and the channels of both are closed once.
C2_Witness ==
    /\ nsub = 2
    /\ loopPc[1] = "exited" /\ ClosedOnce(1)
    /\ loopPc[2] = "exited" /\ ClosedOnce(2)
    /\ exitPath[2] = "fetch_err"

\* C3 as claimed: after Stop returned the timeout error, no further event is
\* pushed on the cancelled subscription's channel.
C3_NoEventAfterTimedOutStop ==
    \A s \in Stops :
        (stopPc[s] = "timeout" /\ Observed(stopCancel[s])) =>
            Len(delivered[stopCancel[s]]) = stopMark[s]

\* C3 amended: after Stop returned the timeout error the cancellation stays in
\* effect, the cancelled receive loop eventually exits with the output channel
\* and the completion signal closed, and at most one further event is pushed
\* (the one whose push was racing with the cancellation).
C3_TimedOutStopStillShutsDown ==
    /\ \A s \in Stops : \A k \in Subs :
           (stopPc[s] = "timeout" /\ stopCancel[s] = k /\ loopPc[k] # "none")
               ~> (loopPc[k] = "exited" /\ ClosedOnce(k))
    /\ [](\A s \in Stops :
              stopPc[s] = "timeout" =>
                  /\ ctxDone[stopCancel[s]]
                  /\ Observed(stopCancel[s]) =>
                         Len(delivered[stopCancel[s]]) <= stopMark[s] + 1)

\* C3 witness: Stop has timed out, and afterwards the loop delivered the event
\* it was pushing and exited with both channels closed.
C3_Witness ==
    \E s \in Stops :
        /\ stopPc[s] = "timeout"
        /\ Observed(stopCancel[s])
        /\ Len(delivered[stopCancel[s]]) = stopMark[s] + 1
        /\ loopPc[stopCancel[s]] = "exited"
        /\ ClosedOnce(stopCancel[s])

\* C4: a receive loop blocked in its push whose context is cancelled exits,
\* whether or not the consumer ever receives; when it leaves through the
\* cancellation case the event of that height is not delivered; and a Stop
\* with a context that never expires, waiting on that loop, returns nil.
C4_StalledConsumerCannotBlockShutdown ==
    /\ \A k \in Subs :
           (loopPc[k] = "push" /\ ctxDone[k]) ~> (loopPc[k] = "exited")
    /\ \A s \in Stops : \A k \in Subs :
           (/\ stopPc[s] = "waiting" /\ ~stopExpires[s] /\ stopDone[s] = k
            /\ loopPc[k] = "push" /\ ctxDone[k])
               ~> (stopPc[s] = "nil")
    /\ [](\A k \in Subs :
              exitPath[k] = "cancel_push" => curHeight[k] \notin Range(delivered[k]))

\* C4 witness: the loop left through the cancellation case of the push, the
\* event was not delivered, and a Stop without deadline returned nil.
C4_Witness ==
    \E s \in Stops :
        /\ stopPc[s] = "nil"
        /\ ~stopExpires[s]
        /\ exitPath[stopDone[s]] = "cancel_push"
        /\ delivered[stopDone[s]] = <<>>
        /\ curHeight[stopDone[s]] = 1

\* The first failed GetSignedBlock of subscription k, as an index of fetchLog.
FailedFetches(k) == {i \in 1..Len(fetchLog[k]) : fetchLog[k][i][2] = "err"}

\* C5: once a GetSignedBlock of the loop has failed, that fetch is the last one
\* (the height is not retried and no later height is fetched), no further
\* height is received, no event is delivered for that height or a later one,
\* the loop is on its way out through the fetch-error return and it eventually
\* exits with the output channel closed.
C5_FailedFetchEndsSubscription ==
    /\ [](\A k \in Subs : \A i \in FailedFetches(k) :
              /\ i = Len(fetchLog[k])
              /\ Received(k) = fetchLog[k][i][1]
              /\ \A h \in Range(delivered[k]) : h < fetchLog[k][i][1]
              /\ \A j \in 1..(i - 1) : fetchLog[k][j][1] < fetchLog[k][i][1]
              /\ exitPath[k] = "fetch_err"
              /\ loopPc[k] \in {"unwind", "exited"})
    /\ \A k \in Subs :
           (FailedFetches(k) # {}) ~> (loopPc[k] = "exited" /\ ClosedOnce(k))

\* C5 witness: the fetch of the first height failed while the stream had more
\* heights to emit; the loop has exited and the channel is closed.
C5_Witness ==
    \E k \in Subs :
        /\ fetchLog[k] = << <<1, "err">> >>
        /\ Received(k) < MaxNotif
        /\ delivered[k] = <<>>
        /\ loopPc[k] = "exited"
        /\ ClosedOnce(k)

\* C6: SubscribeNewHeights is invoked once per SubscribeNewBlockEvent call, and
\* a failed Recv is the last Recv of the subscription: the loop leaves through
\* the receive-error return and exits with the output channel closed.
C6_RecvErrorEndsSubscription ==
    \A k \in Subs :
        /\ opens[k] <= 1
        /\ Observed(k) => opens[k] = 1
        /\ \A i \in 1..Len(recvLog[k]) :
               recvLog[k][i] = "err" =>
                   /\ i = Len(recvLog[k])
                   /\ exitPath[k] = "recv_err"
                   /\ loopPc[k] \in {"unwind", "exited"}
                   /\ loopPc[k] = "exited" => ClosedOnce(k)

\* C6 witness: Recv failed after one height had been delivered, and the loop
\* has exited.
C6_Witness ==
    \E k \in Subs :
        /\ recvLog[k] = <<"ok", "err">>
        /\ delivered[k] = <<1>>
        /\ loopPc[k] = "exited"
        /\ ClosedOnce(k)
        /\ opens[k] = 1

\* ---------------------------------------------------- das sampling worker

MaxJobHeight == 3   \* the heights of a job are 0..MaxJobHeight

\* The jobs a worker is made for; a job with From > To has nothing to sample.
\* Job heights are block heights, far below the end of uint64: curr++ does
\* not wrap.
Jobs == [From : 0..MaxJobHeight, To : 0..MaxJobHeight]

\* What getter.GetByHeight and sample return: nil, an error for which
\* errors.Is(err, context.Canceled) holds, or any other error.
Errors == {"nil", "canceled", "other"}

\* Line 56: errors.Is(err, context.Canceled).
IsCanceledNever(err) == FALSE
IsCanceled(err) == err = "canceled"

\* newWorker, lines 82-90.
newWorker(j) ==
    [From |-> j.From, To |-> j.To, Curr |-> j.From, Err |-> <<>>, failed |-> <<>>]

\* setResult, lines 92-100; multierr.Append(nil, e) is e, so Err is the
\* sequence of the errors appended, and nil when none was.
setResultForgetsErr(st, c, err) ==
    [st EXCEPT !.failed = IF err # "nil" THEN Append(@, c) ELSE @,
               !.Curr = c]
setResult(st, c, err) ==
    [st EXCEPT !.failed = IF err # "nil" THEN Append(@, c) ELSE @,
               !.Err = IF err # "nil" THEN Append(@, <<c, err>>) ELSE @,
               !.Curr = c]

\* A worker is made for job j and its run starts: line 45, curr := From.
StartRun(j) ==
    /\ wpc = "idle"
    /\ wstate' = newWorker(j)
    /\ curr' = j.From
    /\ wpc' = "loop"
    /\ UNCHANGED <<wctx, attempts, results>>

\* Lines 56-60, with err the error of this height: break on a cancellation,
\* otherwise setResult and curr++.
AfterHeight(err) ==
    /\ attempts' = Append(attempts, [height |-> curr, err |-> err])
    /\ IF IsCanceled(err)
       THEN /\ wpc' = "result"
            /\ UNCHANGED <<wstate, curr>>
       ELSE /\ wstate' = setResult(wstate, curr, err)
            /\ curr' = curr + 1
            /\ wpc' = "loop"

\* Lines 45-54: the loop condition holds and GetByHeight returns err; on nil
\* the header goes to sample.
GetByHeight(err) ==
    /\ wpc = "loop"
    /\ curr <= wstate.To
    /\ IF err = "nil"
       THEN /\ wpc' = "sample"
            /\ UNCHANGED <<wstate, curr, attempts>>
       ELSE AfterHeight(err)
    /\ UNCHANGED <<wctx, results>>

\* Lines 51-60: sample returns err.
Sample(err) ==
    /\ wpc = "sample"
    /\ AfterHeight(err)
    /\ UNCHANGED <<wctx, results>>

\* Line 45: the loop condition fails.
LoopEnd ==
    /\ wpc = "loop"
    /\ curr > wstate.To
    /\ wpc' = "result"
    /\ UNCHANGED <<wstate, curr, wctx, attempts, results>>

\* Lines 72-77: the result is sent; resultCh's receiver takes it in the same
\* step.
SendResult ==
    /\ wpc = "result"
    /\ results' = Append(results, [job |-> [From |-> wstate.From, To |-> wstate.To],
                                  failed |-> wstate.failed,
                                  err |-> wstate.Err])
    /\ wpc' = "done"
    /\ UNCHANGED <<wstate, curr, wctx, attempts>>

\* Line 78: case <-ctx.Done().
ResultCancelled ==
    /\ wpc = "result"
    /\ wctx
    /\ wpc' = "done"
    /\ UNCHANGED <<wstate, curr, wctx, attempts, results>>

\* The owner of the worker cancels ctx.
CancelRun ==
    /\ wpc \notin {"idle", "done"}
    /\ ~wctx
    /\ wctx' = TRUE
    /\ UNCHANGED <<wstate, curr, wpc, attempts, results>>

WorkerNext ==
    \/ \E j \in Jobs : StartRun(j) /\ UNCHANGED notWorkerVars
    \/ \E err \in Errors : GetByHeight(err) /\ UNCHANGED notWorkerVars
    \/ \E err \in Errors : Sample(err) /\ UNCHANGED notWorkerVars
    \/ LoopEnd /\ UNCHANGED notWorkerVars
    \/ SendResult /\ UNCHANGED notWorkerVars
    \/ ResultCancelled /\ UNCHANGED notWorkerVars
    \/ CancelRun /\ UNCHANGED notWorkerVars

WorkerSpec == Init /\ [][WorkerNext]_vars

\* The goroutine of run is scheduled, GetByHeight and sample return, and a
\* select with a ready ctx.Done() case returns.  Nothing makes the receiver of
\* resultCh take the result.
WorkerProgress ==
    \/ \E err \in Errors : GetByHeight(err)
    \/ \E err \in Errors : Sample(err)
    \/ LoopEnd
    \/ ResultCancelled

WorkerFairSpec == WorkerSpec /\ WF_vars(WorkerProgress /\ UNCHANGED notWorkerVars)

\* ------------------------------------------------ query methods: claims

\* C7: GetBlockInfo issues its validator-set query with the height reported
\* by the commit it just obtained, with no height resolution in between, also
\* when the requested height is nil; a successful GetBlockInfo returns a
\* validator set for exactly the returned commit's height, however many
\* blocks the chain produced during the call.
C7_ValidatorSetPinnedToCommit ==
    call.op = "GetBlockInfo" =>
        /\ \A i \in 1..Len(rpcs) :
              rpcs[i][1] = "ValidatorSet" =>
                  /\ i > 1
                  /\ rpcs[i - 1][1] = "Commit"
                  /\ call.commit # Nil
                  /\ rpcs[i][2] = call.commit
        /\ call.res.kind = "ok" =>
              /\ call.res.commit # Nil
              /\ call.res.valset = call.res.commit

\* GetBlockInfo(nil) succeeded although the chain moved past the commit's
\* height during the call.
C7_Witness ==
    /\ call.op = "GetBlockInfo"
    /\ call.arg = Nil
    /\ call.res.kind = "ok"
    /\ call.res.commit < latest
    /\ rpcs = <<<<"Status", Nil>>, <<"Commit", call.height>>,
                <<"ValidatorSet", call.res.commit>>>>

\* C8: GetBlockByHash called with an empty hash, nil or zero-length, returns an
\* invalid-argument error and issues no remote call.
C8_EmptyHashRejected ==
    call.op = "GetBlockByHash" /\ call.hash \in {"nil", "empty"} =>
        /\ call.pc = "done"
        /\ call.res.kind = "err"
        /\ call.res.err = "invalid"
        /\ rpcs = <<>>

\* C9: for GetBlock, GetBlockByHash and GetSignedBlock, once a response of the
\* part stream fails to arrive the operation has returned that error and no
\* block; nothing is built from the parts received before the failure.
C9_StreamErrorAbortsFetch ==
    call.streamErr =>
        /\ call.op \in StreamOps
        /\ call.pc = "done"
        /\ call.res.kind = "err"
        /\ call.res.err = "transport"
        /\ call.res.block.nil

\* The stream failed after parts that on their own decode to a block.
C9_Witness ==
    /\ call.streamErr
    /\ call.op \in {"GetBlock", "GetSignedBlock"}
    /\ call.parts # <<>>
    /\ partsToBlock(call.parts).err = "none"
    /\ ~partsToBlock(call.parts).block.nil
    /\ call.res.kind = "err"

\* C10: partsToBlock fails with a non-nil error whenever a received part
\* cannot be appended to the accumulator, for an out-of-range index and for
\* an index collision alike, so a fetch never completes with neither a block
\* nor an error.
C10_UnappendablePartIsAnError ==
    /\ call.pc = "assemble" /\ partsToBlock(call.parts).block.nil =>
          partsToBlock(call.parts).err # "none"
    /\ call.pc = "done" /\ call.op \in StreamOps =>
          ~call.res.block.nil \/ call.res.err # "none"

\* The payloads of parts, one after another in the order of the sequence,
\* which for call.parts is the order in which they were received.
RECURSIVE InReceiveOrder(_)
InReceiveOrder(parts) ==
    IF parts = <<>> THEN <<>> ELSE Head(parts).bytes \o InReceiveOrder(Tail(parts))

\* C11: within one streaming fetch the bytes decoded are the payloads in the
\* order the parts were received, and reassembly never succeeds on a stream
\* whose parts declare indices out of sequence.
C11_ReassembledInReceiveOrder ==
    call.pc = "assemble" /\ partsToBlock(call.parts).err = "none"
                         /\ ~partsToBlock(call.parts).block.nil =>
        /\ \A i \in 1..Len(call.parts) : call.parts[i].index = i - 1
        /\ partsToBlock(call.parts).block = Unmarshal(InReceiveOrder(call.parts)).block

\* The Status queries among the remote calls made so far.
StatusQueries == {i \in 1..Len(rpcs) : rpcs[i][1] = "Status"}

\* C12: resolveHeight returns a non-nil height unchanged and issues no Status
\* query; for a nil height it issues exactly one Status query and returns the
\* latest height reported; if that query fails the call returns the error,
\* without a retry and without the downstream request.
C12_HeightResolution ==
    [][/\ call.pc = "resolve" /\ call' # call =>
             IF call.ptr # Nil
             THEN /\ call'.height = call.ptr
                  /\ call'.pc = call.then
                  /\ rpcs' = rpcs
             ELSE /\ rpcs' = Append(rpcs, <<"Status", Nil>>)
                  /\ \/ call'.pc = call.then /\ call'.height = latest
                     \/ /\ call'.pc = "done"
                        /\ call'.res = [NoResult EXCEPT !.kind = "err",
                                                        !.err = "transport"]
       /\ call'.op \in HeightOps =>
             /\ call'.arg # Nil => StatusQueries' = {}
             /\ call'.arg = Nil => StatusQueries' \subseteq {1}
             /\ call'.arg = Nil /\ call'.pc \notin {"resolve", "done"} =>
                   StatusQueries' = {1}
             /\ call'.arg = Nil /\ call'.height = Nil /\ call'.pc = "done" =>
                   rpcs' = <<<<"Status", Nil>>>>
      ]_vars

\* A call with a nil height made its downstream request at the height Status
\* reported, and the chain has grown since.
C12_Witness ==
    /\ call.op = "Commit"
    /\ call.arg = Nil
    /\ call.height < latest
    /\ rpcs = <<<<"Status", Nil>>, <<"Commit", call.height>>>>

\* The remote calls of the given kind made so far.
Queries(kind) == {i \in 1..Len(rpcs) : rpcs[i][1] = kind}

\* C13: GetSignedBlock resolves the height once and opens exactly one
\* by-height stream at that height; on success the block is the one
\* reassembled from that stream and the commit and validator set are those
\* that came with its first response; no Commit or ValidatorSet query is made,
\* so all three belong to the height of the stream whatever blocks are
\* produced meanwhile.
C13_SignedBlockFromOneStream ==
    call.op = "GetSignedBlock" =>
        /\ Queries("Commit") = {} /\ Queries("ValidatorSet") = {}
        /\ Cardinality(Queries("Status")) <= (IF call.arg = Nil THEN 1 ELSE 0)
        /\ Cardinality(Queries("BlockByHeight")) <= 1
        /\ \A i \in Queries("BlockByHeight") :
              /\ rpcs[i][2] = call.height
              /\ call.arg # Nil => rpcs[i][2] = call.arg
        /\ call.res.kind = "ok" =>
              /\ rpcs[Len(rpcs)] = <<"BlockByHeight", call.height>>
              /\ call.res.block = partsToBlock(call.parts).block
              /\ ~call.res.block.nil
              /\ call.res.commit = call.height
              /\ call.res.valset = call.height

\* GetSignedBlock(nil) succeeded on a stream of several parts while the chain
\* grew past the height of the stream.
C13_Witness ==
    /\ call.op = "GetSignedBlock"
    /\ call.arg = Nil
    /\ call.res.kind = "ok"
    /\ Len(call.parts) > 1
    /\ call.height < latest

\* ------------------------------------------- subscription: further claims

\* The receive loop of subscription k is running.
Running(k) == loopPc[k] \notin {"none", "exited"}

\* C14: at most one subscription is alive per fetcher at a time: over any
\* sequence of SubscribeNewBlockEvent and Stop calls at most one receive loop
\* is running, and the cancel function and completion channel stored on the
\* fetcher are those of the running loop.
C14_AtMostOneSubscription ==
    /\ Cardinality({k \in Subs : Running(k)}) <= 1
    /\ \A k \in Subs : Running(k) => f_cancel = k /\ f_doneCh = k

CurrBefore(i) == IF i = 1 THEN wstate.From ELSE attempts[i - 1].height

\* C16: a height whose header fetch or sampling returns a cancellation error
\* stops the loop there: it is the last height handled, it is not in the
\* failed list, the aggregated error has no entry for it and Curr is not
\* advanced to it.  A height with any other error is recorded in the failed
\* list and in the aggregated error, and the loop goes on with the next
\* height.
C16_CancellationIsNotAFailure ==
    \A i \in 1..Len(attempts) :
        LET a == attempts[i]
        IN  /\ a.err = "canceled" =>
                  /\ i = Len(attempts)
                  /\ wpc \in {"result", "done"}
                  /\ a.height \notin Range(wstate.failed)
                  /\ \A e \in Range(wstate.Err) : e[1] # a.height
                  /\ wstate.Curr = CurrBefore(i)
            /\ a.err = "other" =>
                  /\ a.height \in Range(wstate.failed)
                  /\ <<a.height, "other">> \in Range(wstate.Err)
                  /\ IF i < Len(attempts)
                     THEN attempts[i + 1].height = a.height + 1
                     ELSE /\ curr = a.height + 1
                          /\ wstate.Curr = a.height
                          /\ a.height < wstate.To => wpc \in {"loop", "sample"}

\* A run in which one height failed and a later one was cancelled.
C16_Witness ==
    /\ wpc = "done"
    /\ \E i, j \in 1..Len(attempts) :
          /\ i < j
          /\ attempts[i].err = "other"
          /\ attempts[j].err = "canceled"
          /\ attempts[j].height > wstate.From

\* The safety part of C17, in a state of a run.
WorkerInvariant ==
    /\ \A i \in 1..Len(attempts) : attempts[i].height = wstate.From + i - 1
    /\ curr = wstate.From
                 + Cardinality({i \in 1..Len(attempts) : attempts[i].err # "canceled"})
    /\ \A i \in 1..Len(wstate.failed) :
          /\ wstate.From <= wstate.failed[i] /\ wstate.failed[i] <= wstate.Curr
          /\ i > 1 => wstate.failed[i - 1] < wstate.failed[i]
    /\ wstate.failed # <<>> <=> wstate.Err # <<>>
    /\ wstate.From <= wstate.To =>
          wstate.From <= wstate.Curr /\ wstate.Curr <= wstate.To
    /\ Len(results) <= 1
    /\ wpc # "done" => results = <<>>
    /\ \A i \in 1..Len(results) :
          results[i] = [job |-> [From |-> wstate.From, To |-> wstate.To],
                        failed |-> wstate.failed,
                        err |-> wstate.Err]

\* C17: in every state of one run over job [From, To]: heights are handled in
\* strictly ascending order, each at most once; the failed list is strictly
\* increasing and within [From, Curr]; it is non-empty exactly when the
\* aggregated error is non-nil; From <= Curr <= To whenever From <= To; at most
\* one result is sent, carrying the job, the failed list and the aggregated
\* error; and once ctx is cancelled run returns.
C17_WorkerInvariants ==
    /\ [](wpc # "idle" => WorkerInvariant)
    /\ (wctx ~> wpc = "done")

\* A cancelled run over several heights, two of them failed, returned
\* without its result having been taken.
C17_Witness ==
    /\ wpc = "done"
    /\ wctx
    /\ results = <<>>
    /\ Len(wstate.failed) >= 2
    /\ wstate.Curr < wstate.To

\* C18: in an active subscription the events are delivered in the order of
\* the height notifications, at most one per notification and each built from
\* the GetSignedBlock result for the notified height; the next notification
\* is not received before the event of the previous one has been taken, so
\* the delivered events are a prefix of the notification sequence.  (The i-th
\* notification of a stream announces height i.)
C18_EventsFollowNotifications ==
    \A k \in Subs : Observed(k) =>
        /\ Len(delivered[k]) <= Received(k)
        /\ Received(k) <= Len(delivered[k]) + 1
        /\ \A i \in 1..Len(delivered[k]) :
              /\ delivered[k][i] = i
              /\ fetchLog[k][i] = <<i, "ok">>
        /\ loopPc[k] \in {"top", "recv"} => Received(k) = Len(delivered[k])
        /\ loopPc[k] \in {"fetch", "push"} =>
              /\ Received(k) = Len(delivered[k]) + 1
              /\ curHeight[k] = Received(k)

\* Both notifications of a stream have been delivered, in order.
C18_Witness ==
    \E k \in Subs : Observed(k) /\ delivered[k] = <<1, 2>> /\ loopPc[k] = "recv"

\* The k-th SubscribeNewBlockEvent call failed to open its stream.
FailedOpen(k) == 1 <= k /\ k <= nsub /\ loopPc[k] = "none"

\* C19: a SubscribeNewBlockEvent that fails to open the new-heights stream
\* starts no receive loop but leaves a fresh cancel function and an unclosed
\* completion channel on the fetcher; a Stop called afterwards never returns
\* nil: it returns only with the timeout error, when its ctx is done, and
\* keeps waiting if its ctx never expires.
C19_StopAfterFailedOpen ==
    [][/\ \A k \in Subs : FailedOpen(k)' =>
             /\ doneClosers'[k] = <<>>
             /\ deferStack'[k] = <<>>
             /\ opens'[k] <= 1
             /\ k = nsub' => f_cancel' = k /\ f_doneCh' = k
       /\ \A s \in Stops :
             stopPc[s] \in {"called", "waiting"} /\ FailedOpen(stopCancel[s]) =>
                 /\ stopPc[s] = "waiting" => stopDone[s] = stopCancel[s]
                 /\ \/ stopPc'[s] = stopPc[s]
                    \/ stopPc[s] = "called" /\ stopPc'[s] = "waiting"
                    \/ /\ stopPc[s] = "waiting"
                       /\ stopExpires[s]
                       /\ stopPc'[s] = "timeout"
      ]_vars

\* A Stop called after a failed open has returned with the timeout error.
C19_Witness ==
    \E s \in Stops :
        /\ stopPc[s] = "timeout"
        /\ FailedOpen(stopDone[s])
        /\ f_doneCh = stopDone[s]

\* C20: Stop is safe only after SubscribeNewBlockEvent was called: on a fresh
\* fetcher the cancel function is nil and Stop, instead of returning an
\* error, calls it and crashes; after any SubscribeNewBlockEvent call the
\* stored cancel function and completion channel are set; and a Stop called
\* after the loop has exited, again and again, returns nil without waiting.
C20_StopNeedsSubscribe ==
    /\ [](nsub = 0 =>
             /\ f_cancel = 0 /\ f_doneCh = 0
             /\ \A s \in Stops : stopPc[s] \in {"idle", "panic"})
    /\ [][nsub = 0 /\ stopPc' # stopPc => crashed']_vars
    /\ [](\A s \in Stops : stopPc[s] = "panic" =>
             crashed /\ nsub = 0 /\ stopCancel[s] = 0)
    /\ [](nsub >= 1 => f_cancel = nsub /\ f_doneCh = nsub)
    /\ [](\A s \in Stops :
             /\ nsub >= 1
             /\ ~crashed
             /\ stopPc[s] = "waiting"
             /\ loopPc[stopDone[s]] = "exited"
             => ENABLED StopReturnNil(s))
    /\ \A s \in Stops :
          (/\ nsub >= 1
           /\ ~crashed
           /\ stopPc[s] = "called"
           /\ ~stopExpires[s]
           /\ loopPc[f_doneCh] = "exited") ~> (stopPc[s] = "nil")

\* Stop was called on a fresh fetcher and the process crashed.
C20_Witness ==
    /\ nsub = 0
    /\ crashed
    /\ \E s \in Stops : stopPc[s] = "panic" /\ stopCancel[s] = 0

=============================================================================
